---- MODULE Spec2Model ----
(***************************************************************************)
(* Model of backend/conversation_history_manager.py: the persistent        *)
(* conversation store (ConversationHistoryManager) over its two backends   *)
(* (local files, S3 objects), driven by concurrent callers.                *)
(*                                                                         *)
(* A caller runs one operation at a time.  save_interaction touches the    *)
(* backend twice (the read of line 121, the write of line 167); everything *)
(* between the two is local to the call, so the call is two steps:         *)
(* SaveLoadMerge (lines 121-164) and SaveWrite (line 167).                 *)
(* get_conversation_history and format_as_prompt_template touch the        *)
(* backend once and are one step each.                                     *)
(* generate_conversation_id touches nothing and is one step.               *)
(*                                                                         *)
(* The module-level manager (get_conversation_manager, lines 216-255) and  *)
(* the constructor (lines 21-48) are modelled in SpecMgr, over the         *)
(* environment variables USE_S3 and S3_BUCKET_NAME; the callers of the     *)
(* other specifications use a manager that has been constructed.           *)
(*                                                                         *)
(* The endpoint query_rag (main.py lines 114-202) with RAGService.query    *)
(* (rag_service.py lines 109-239) is modelled in SpecQuery and             *)
(* SpecQueryRace: a request reads the store (QueryRag), goes through the   *)
(* service up to the answer (Query), and saves the interaction            *)
(* (QuerySaveLoadMerge, QuerySaveWrite).  The backend is indexed by the    *)
(* file path or the S3 key of a conversation id (KeyOf).                   *)
(*                                                                         *)
(* Fields origin, call and src of a message, and the fields snap, seen,     *)
(* fault, rd, err, retry, nreads, nwrites of a caller are history (ghost)  *)
(* fields: the code never reads them, they record what happened.           *)
(***************************************************************************)
EXTENDS Integers, Sequences, FiniteSets, TLC

\* ---------------------------------------------------------------- bounds
MaxCalls == 2
MaxClock == 1
MaxMgrCalls == 2
MaxQueryClock == 0

Procs     == {"p1", "p2"}
ConvIds   == {"c1", "c2"}
Questions == {"hi", "bye"}
Answers   == {"hello"}

NoTime == -1

\* entries of an imported history: {role, content} pairs
Entry(role, content) == [role |-> role, content |-> content]

\* the imported histories a single caller sends
Histories ==
    { <<>>,
      <<Entry("user", "hi")>>,
      <<Entry("user", "hi"), Entry("assistant", "hello")>>,
      <<Entry("system", "hi"), Entry("system", "hi")>>,
      <<Entry("assistant", "hello"), Entry("user", "bye")>> }

\* the imported histories sent to a transcript that is formatted: a role
\* in another letter case, a role that is neither user nor assistant
FmtHistories ==
    { <<>>,
      <<Entry("User", "hi")>>,
      <<Entry("system", "hi"), Entry("system", "hi")>> }

\* the conversation a single caller works on
SeqIds == {"c1"}

\* two conversation ids, as a client may send them, that differ by a "./"
AliasIds == {"c1", "./c1"}

AllIds == ConvIds \cup AliasIds

\* the values uuid4() returns
Uuids == {"u1", "u2"}

\* the value uuid4() returns to a request
QueryUuids == {"u1"}

\* the inputs of callers that run concurrently: every call imports the
\* same two-entry history
RaceIds       == {"c1"}
RaceQuestions == {"hi"}
RaceHistories == { <<Entry("user", "hi"), Entry("assistant", "hello")>> }

\* ---------------------------------------------------------------- state
VARIABLES
    use_s3,     \* self.use_s3: the backend selected at construction
    storage,    \* the backend: one file / object per conversation id
    procs,      \* the callers
    clock,      \* the largest value datetime.utcnow() has returned so far
    ncalls,     \* number of calls started
    env,        \* os.environ: USE_S3 and S3_BUCKET_NAME
    boto3_available,       \* BOTO3_AVAILABLE: the import of boto3 succeeded
    conversation_manager,  \* _conversation_manager: 0 for None, else the
                           \* number of the instance held
    instances,  \* the ConversationHistoryManager instances constructed so far
    got,        \* what the last call on the manager side did (ghost)
    nmgr        \* number of calls on the manager side

storevars == <<use_s3, storage, procs, clock, ncalls>>

mgrvars == <<env, boto3_available, conversation_manager, instances, got, nmgr>>

vars == <<use_s3, storage, procs, clock, ncalls,
          env, boto3_available, conversation_manager, instances, got, nmgr>>

\* the value of a key that holds nothing readable
NoDoc == [conversation_id |-> "", created_at |-> NoTime,
          updated_at |-> NoTime, messages |-> <<>>]

\* _get_s3_key, lines 54-56: the object key of a conversation
GetS3Key(conversation_id) == conversation_id \o ".json"

\* Path(storage_dir) / name: pathlib drops a "." component, so a leading
\* "./" of the name is not part of the path
RECURSIVE PathUnder(_)
PathUnder(name) ==
    IF Len(name) >= 2 /\ SubSeq(name, 1, 2) = "./"
    THEN PathUnder(SubSeq(name, 3, Len(name)))
    ELSE name

\* _get_conversation_file, lines 50-52: the file of a conversation, as a
\* path under storage_dir
GetConversationFile(conversation_id) == PathUnder(conversation_id \o ".json")

\* the place in the backend that load and save use for a conversation id
\* (lines 62, 78, 94, 100)
KeyOf(conversation_id) ==
    IF use_s3 THEN GetS3Key(conversation_id)
    ELSE GetConversationFile(conversation_id)

\* every object key and file path the conversation ids can name
StorageKeys ==
    {GetS3Key(c) : c \in AllIds \cup Uuids}
       \cup {GetConversationFile(c) : c \in AllIds \cup Uuids}

\* str.lower() on the role strings that occur
Lower(s) ==
    IF s \in {"user", "User", "USER"} THEN "user"
    ELSE IF s \in {"assistant", "Assistant"} THEN "assistant"
    ELSE IF s \in {"true", "True", "TRUE"} THEN "true"
    ELSE s

\* dict.get(key, default) on a JSON object, held as the sequence of its
\* <<key, value>> members in the order they were written
Get(object, key, default) ==
    IF \E i \in 1..Len(object) : object[i][1] = key
    THEN object[CHOOSE i \in 1..Len(object) : object[i][1] = key][2]
    ELSE default

\* faulty variant: the timestamps of the messages are not written
JsonDumps_NoTimestamps(conversation_data) ==
    << <<"conversation_id", conversation_data.conversation_id>>,
       <<"created_at", conversation_data.created_at>>,
       <<"messages",
         [k \in 1..Len(conversation_data.messages) |->
            LET m == conversation_data.messages[k] IN
            << <<"role", m.role>>, <<"content", m.content>>,
               <<"origin", m.origin>>, <<"call", m.call>>, <<"src", m.src>> >>]>> >>
    \o (IF conversation_data.updated_at = NoTime THEN <<>>
        ELSE << <<"updated_at", conversation_data.updated_at>> >>)

\* lines 92, 102: json.dumps / json.dump of the conversation dict: the
\* members in the order of the dict, "updated_at" only when the key is set
JsonDumps(conversation_data) ==
    << <<"conversation_id", conversation_data.conversation_id>>,
       <<"created_at", conversation_data.created_at>>,
       <<"messages",
         [k \in 1..Len(conversation_data.messages) |->
            LET m == conversation_data.messages[k] IN
            << <<"role", m.role>>, <<"content", m.content>>,
               <<"timestamp", m.timestamp>>,
               <<"origin", m.origin>>, <<"call", m.call>>, <<"src", m.src>> >>]>> >>
    \o (IF conversation_data.updated_at = NoTime THEN <<>>
        ELSE << <<"updated_at", conversation_data.updated_at>> >>)

\* lines 64, 80: json.loads / json.load of a stored body, read through
\* the keys the code reads
JsonLoads(body) ==
    LET messages == Get(body, "messages", <<>>) IN
    [conversation_id |-> Get(body, "conversation_id", ""),
     created_at      |-> Get(body, "created_at", NoTime),
     updated_at      |-> Get(body, "updated_at", NoTime),
     messages        |->
        [k \in 1..Len(messages) |->
            [role      |-> Get(messages[k], "role", ""),
             content   |-> Get(messages[k], "content", ""),
             timestamp |-> Get(messages[k], "timestamp", NoTime),
             origin    |-> Get(messages[k], "origin", "none"),
             call      |-> Get(messages[k], "call", 0),
             src       |-> Get(messages[k], "src", 0)]]]

\* a backend entry: absent (no file / key), ok (a JSON document),
\* corrupt (a file that was truncated by open(.., "w") and not fully written).
\* body is what the backend holds; doc is a ghost field, the dict that was
\* handed to the write
Absent  == [state |-> "absent",  doc |-> NoDoc, body |-> <<>>]
Corrupt == [state |-> "corrupt", doc |-> NoDoc, body |-> <<>>]
Stored(doc) == [state |-> "ok", doc |-> doc, body |-> JsonDumps(doc)]

IdleProc == [pc |-> "idle", op |-> "none", id |-> "c1",
             question |-> "", answer |-> "", history |-> <<>>,
             data |-> NoDoc, ret |-> <<>>, text |-> "",
             snap |-> NoDoc, seen |-> "none", fault |-> FALSE,
             rd |-> "none", err |-> "none", call |-> 0, retry |-> 0,
             nreads |-> 0, nwrites |-> 0,
             request |-> [conversation_id |-> "None",
                          conversation_history |-> <<>>],
             docs |-> <<>>, saved_id |-> "None",
             response |-> [status |-> 0, answer |-> "",
                           conversation_id |-> "None", sources |-> <<>>]]

\* ---------------------------------------------------------------- helpers

\* the successive readings of datetime.utcnow() made by one step:
\* n readings, none earlier than the one before
RECURSIVE ClockReadingsUpTo(_, _, _)
ClockReadingsUpTo(lo, hi, n) ==
    IF n = 0 THEN {<<>>}
    ELSE UNION {{<<now>> \o s : s \in ClockReadingsUpTo(now, hi, n - 1)} :
                  now \in lo..hi}

\* the readings of one step of a caller of the manager
ClockReadings(lo, n) == ClockReadingsUpTo(lo, MaxClock, n)

\* lines 69-73 and 82-86: the structure returned for a missing conversation
EmptyStructure(conversation_id, now) ==
    [conversation_id |-> conversation_id, created_at |-> now,
     updated_at |-> NoTime, messages |-> <<>>]

\* faulty variant: a missing conversation raises
LoadFromStorage_RaiseOnMissing(conversation_id, fault, now) ==
    LET entry == storage[KeyOf(conversation_id)] IN
    IF fault \/ entry.state # "ok"
    THEN [rd |-> "fault", raised |-> TRUE, data |-> NoDoc]
    ELSE [rd |-> "found", raised |-> FALSE, data |-> JsonLoads(entry.body)]

\* faulty variant: every failed read is answered with the empty structure
LoadFromStorage_EmptyOnFault(conversation_id, fault, now) ==
    LET entry == storage[KeyOf(conversation_id)] IN
    IF fault \/ entry.state # "ok"
    THEN [rd |-> "notfound", raised |-> FALSE,
          data |-> EmptyStructure(conversation_id, now)]
    ELSE [rd |-> "found", raised |-> FALSE, data |-> JsonLoads(entry.body)]

\* _load_from_storage: what one backend read returns.
\*   fault: the backend reports a fault other than not-found for this read
\*   now  : the clock reading used when the conversation is missing
LoadFromStorage(conversation_id, fault, now) ==
    LET entry == storage[KeyOf(conversation_id)] IN
    IF fault \/ entry.state = "corrupt"
    THEN [rd |-> "fault", raised |-> TRUE, data |-> NoDoc]
    ELSE IF entry.state = "absent"
    THEN [rd |-> "notfound", raised |-> FALSE,
          data |-> EmptyStructure(conversation_id, now)]
    ELSE [rd |-> "found", raised |-> FALSE, data |-> JsonLoads(entry.body)]

\* faulty variant: the duplicate check compares the content only
AlreadyIn_ContentOnly(messages, role, content) ==
    \E i \in 1..Len(messages) : messages[i].content = content

\* faulty variant: the duplicate check never finds a duplicate
AlreadyIn_Never(messages, role, content) == FALSE

\* line 132-135: any(m.role == role and m.content == content for m in messages)
AlreadyIn(messages, role, content) ==
    \E i \in 1..Len(messages) :
        messages[i].role = role /\ messages[i].content = content

\* a message as lines 137-141, 146-150, 155-159 build it; origin, call and
\* src (the position of the entry in the imported history) are ghost fields
NewMessage(role, content, now, origin, call, src) ==
    [role |-> role, content |-> content, timestamp |-> now,
     origin |-> origin, call |-> call, src |-> src]

\* faulty variant: the duplicate check sees the loaded messages only, not
\* those appended earlier in the same merge
RECURSIVE MergeHistory_LoadedOnly(_, _, _, _, _)
MergeHistory_LoadedOnly(messages, conversation_history, ts, call, i) ==
    IF i > Len(conversation_history) THEN messages
    ELSE LET msg == conversation_history[i]
             Loaded(m) == ~(m.origin = "history" /\ m.call = call)
         IN
         IF ~AlreadyIn(SelectSeq(messages, Loaded), msg.role, msg.content)
         THEN MergeHistory_LoadedOnly(
                Append(messages,
                       NewMessage(msg.role, msg.content, ts[i], "history", call, i)),
                conversation_history, ts, call, i + 1)
         ELSE MergeHistory_LoadedOnly(messages, conversation_history, ts, call, i + 1)

\* lines 127-142: the merge loop over the imported history, from entry i on;
\* ts[i] is the clock reading available when entry i is considered
RECURSIVE MergeHistory(_, _, _, _, _)
MergeHistory(messages, conversation_history, ts, call, i) ==
    IF i > Len(conversation_history) THEN messages
    ELSE LET msg == conversation_history[i] IN
         IF ~AlreadyIn(messages, msg.role, msg.content)
         THEN MergeHistory(
                Append(messages,
                       NewMessage(msg.role, msg.content, ts[i], "history", call, i)),
                conversation_history, ts, call, i + 1)
         ELSE MergeHistory(messages, conversation_history, ts, call, i + 1)

\* faulty variant: the answer is not appended
AppendInteraction_QuestionOnly(messages, question, answer, tq, ta, call) ==
    Append(messages, NewMessage("user", question, tq, "question", call, 0))

\* lines 144-160: the question and the answer are appended, in that order
AppendInteraction(messages, question, answer, tq, ta, call) ==
    Append(Append(messages,
                  NewMessage("user", question, tq, "question", call, 0)),
           NewMessage("assistant", answer, ta, "answer", call, 0))

\* faulty variant: updated_at is the reading taken at the load
UpdateConversation_StampFirst(data, question, answer, conversation_history, rs, call) ==
    LET n  == Len(conversation_history)
        ts == [i \in 1..n |-> rs[i+1]]
        merged == MergeHistory(data.messages, conversation_history, ts, call, 1)
    IN [data EXCEPT
          !.messages   = AppendInteraction(merged, question, answer,
                                           rs[n+2], rs[n+3], call),
          !.updated_at = rs[1]]

\* faulty variant: the question and the answer are appended before the history is merged
UpdateConversation_PairFirst(data, question, answer, conversation_history, rs, call) ==
    LET n  == Len(conversation_history)
        ts == [i \in 1..n |-> rs[i+1]]
        first == AppendInteraction(data.messages, question, answer,
                                   rs[n+2], rs[n+3], call)
    IN [data EXCEPT
          !.messages   = MergeHistory(first, conversation_history, ts, call, 1),
          !.updated_at = rs[n+4]]

\* lines 124-164: the in-memory update of save_interaction
\* rs: the clock readings of the step; rs[1] is the reading of the load
UpdateConversation(data, question, answer, conversation_history, rs, call) ==
    LET n  == Len(conversation_history)
        ts == [i \in 1..n |-> rs[i+1]]
        merged == MergeHistory(data.messages, conversation_history, ts, call, 1)
    IN [data EXCEPT
          !.messages   = AppendInteraction(merged, question, answer,
                                           rs[n+2], rs[n+3], call),
          !.updated_at = rs[n+4]]

\* faulty variant: the role is compared as stored, without lower()
RECURSIVE FormatLines_CaseSensitive(_)
FormatLines_CaseSensitive(messages) ==
    IF messages = <<>> THEN <<>>
    ELSE LET msg == Head(messages) IN
         IF msg.role = "user"
         THEN <<"Human: " \o msg.content>> \o FormatLines_CaseSensitive(Tail(messages))
         ELSE IF msg.role = "assistant"
         THEN <<"Assistant: " \o msg.content>> \o FormatLines_CaseSensitive(Tail(messages))
         ELSE FormatLines_CaseSensitive(Tail(messages))

\* faulty variant: a message of any other role is formatted as well
RECURSIVE FormatLines_EveryRole(_)
FormatLines_EveryRole(messages) ==
    IF messages = <<>> THEN <<>>
    ELSE LET msg == Head(messages) IN
         IF Lower(msg.role) = "user"
         THEN <<"Human: " \o msg.content>> \o FormatLines_EveryRole(Tail(messages))
         ELSE IF Lower(msg.role) = "assistant"
         THEN <<"Assistant: " \o msg.content>> \o FormatLines_EveryRole(Tail(messages))
         ELSE <<msg.role \o ": " \o msg.content>> \o FormatLines_EveryRole(Tail(messages))

\* lines 185-194: formatted_lines, one line per user / assistant message
RECURSIVE FormatLines(_)
FormatLines(messages) ==
    IF messages = <<>> THEN <<>>
    ELSE LET msg == Head(messages) IN
         IF Lower(msg.role) = "user"
         THEN <<"Human: " \o msg.content>> \o FormatLines(Tail(messages))
         ELSE IF Lower(msg.role) = "assistant"
         THEN <<"Assistant: " \o msg.content>> \o FormatLines(Tail(messages))
         ELSE FormatLines(Tail(messages))

\* line 196: "\n".join(formatted_lines)
RECURSIVE JoinLines(_)
JoinLines(lines) ==
    IF lines = <<>> THEN ""
    ELSE IF Len(lines) = 1 THEN lines[1]
    ELSE lines[1] \o "\n" \o JoinLines(Tail(lines))

\* lines 181-196: the string format_as_prompt_template returns
FormatPrompt(conversation_data) ==
    IF conversation_data.messages = <<>> THEN ""
    ELSE JoinLines(FormatLines(conversation_data.messages))

\* faulty variant: the write adds the new interaction to what the key holds now
SaveToStorage_Appending(conversation_id, conversation_data, outcome) ==
    LET entry == storage[KeyOf(conversation_id)]
        new   == conversation_data.messages
    IN
    IF outcome = "ok"
    THEN IF entry.state = "ok"
         THEN Stored([conversation_data EXCEPT !.messages =
                 entry.doc.messages \o SubSeq(new, Len(new) - 1, Len(new))])
         ELSE Stored(conversation_data)
    ELSE IF outcome = "partial" THEN Corrupt
    ELSE entry

\* faulty variant: a write that raises has stored the document all the same
SaveToStorage_StoredThoughRaised(conversation_id, conversation_data, outcome) ==
    IF outcome = "partial" THEN Corrupt ELSE Stored(conversation_data)

\* _save_to_storage: the value of the key after one backend write.
\*   outcome "ok"     : the document is stored
\*   outcome "refused": the write fails before the key is touched
\*                      (put_object raises; open() raises)
\*   outcome "partial": local files only: open(.., "w") has truncated the
\*                      file and json.dump raises before it finishes
SaveToStorage(conversation_id, conversation_data, outcome) ==
    IF outcome = "ok" THEN Stored(conversation_data)
    ELSE IF outcome = "partial" THEN Corrupt
    ELSE storage[KeyOf(conversation_id)]

WriteOutcomes == IF use_s3 THEN {"ok", "refused"} ELSE {"ok", "refused", "partial"}

\* ---------------------------------------------------------------- the manager

\* an environment variable that is not set
Unset == "<unset>"

\* the values USE_S3 and S3_BUCKET_NAME are given
UseS3Values == {Unset, "true", "TRUE"}
BucketValues == {Unset, "b1", "b2"}

\* line 22: the default of storage_dir; line 234: the default of MEMORY_DIR
DefaultDir == "./persistent_conversation_history"

\* os.getenv(name, default)
GetEnv(name, default) == IF env[name] = Unset THEN default ELSE env[name]

\* an attribute that __init__ has not set
NoAttr == "<no attribute>"

\* the fields of an instance that __init__ has not reached
NoInstance == [use_s3 |-> FALSE, s3_bucket |-> "", s3_client |-> NoAttr,
               storage_dir |-> NoAttr]

\* faulty variant: the bucket name is not checked
NewManager_NoBucketCheck(storage_dir, use_s3_arg, s3_bucket_arg, io_ok) ==
    LET use    == IF use_s3_arg # "None" THEN use_s3_arg = "True"
                  ELSE Lower(GetEnv("USE_S3", "false")) = "true"
        bucket == IF s3_bucket_arg \notin {"None", ""} THEN s3_bucket_arg
                  ELSE GetEnv("S3_BUCKET_NAME", "")
        self   == [NoInstance EXCEPT !.use_s3 = use, !.s3_bucket = bucket]
    IN
    IF use
    THEN IF ~boto3_available THEN [raised |-> "ImportError", self |-> self]
         ELSE IF ~io_ok THEN [raised |-> "BotoCoreError", self |-> self]
         ELSE [raised |-> "none", self |-> [self EXCEPT !.s3_client = "s3"]]
    ELSE IF ~io_ok
         THEN [raised |-> "OSError", self |-> [self EXCEPT !.s3_client = "None"]]
         ELSE [raised |-> "none",
               self |-> [self EXCEPT !.s3_client = "None",
                                     !.storage_dir = storage_dir]]

\* __init__, lines 21-48.  use_s3_arg is "None", "True" or "False";
\* s3_bucket_arg is "None" or a string; io_ok tells whether the call that
\* reaches outside (boto3.client, mkdir) succeeds.  Gives the exception
\* raised ("none" if none) and the instance as far as it was set up.
NewManager(storage_dir, use_s3_arg, s3_bucket_arg, io_ok) ==
    LET use    == IF use_s3_arg # "None" THEN use_s3_arg = "True"
                  ELSE Lower(GetEnv("USE_S3", "false")) = "true"
        bucket == IF s3_bucket_arg \notin {"None", ""} THEN s3_bucket_arg
                  ELSE GetEnv("S3_BUCKET_NAME", "")
        self   == [NoInstance EXCEPT !.use_s3 = use, !.s3_bucket = bucket]
    IN
    IF use
    THEN IF ~boto3_available THEN [raised |-> "ImportError", self |-> self]
         ELSE IF bucket = "" THEN [raised |-> "ValueError", self |-> self]
         ELSE IF ~io_ok THEN [raised |-> "BotoCoreError", self |-> self]
         ELSE [raised |-> "none", self |-> [self EXCEPT !.s3_client = "s3"]]
    ELSE IF ~io_ok
         THEN [raised |-> "OSError", self |-> [self EXCEPT !.s3_client = "None"]]
         ELSE [raised |-> "none",
               self |-> [self EXCEPT !.s3_client = "None",
                                     !.storage_dir = storage_dir]]

\* lines 60-64, 78-80 and 90-101: what reaching for the backend of an
\* instance raises before any storage is touched
AccessError(self) ==
    IF self.use_s3
    THEN IF self.s3_client \in {NoAttr, "None"} THEN "AttributeError"
         ELSE IF self.s3_bucket = "" THEN "ParamValidationError"
         ELSE "none"
    ELSE IF self.storage_dir = NoAttr THEN "AttributeError" ELSE "none"

\* no call on the manager side yet
NoCall == [call |-> "none", raised |-> "none", oid |-> 0,
           env |-> [USE_S3 |-> Unset, S3_BUCKET_NAME |-> Unset],
           use_s3_arg |-> "None", s3_bucket_arg |-> "None",
           storage_dir |-> NoAttr, held |-> 0, made |-> 0]

\* ---------------------------------------------------------------- actions

\* the callers use the manager that get_conversation_manager has handed
\* out for the configured backend
Init ==
    /\ use_s3 \in BOOLEAN
    /\ storage = [k \in StorageKeys |-> Absent]
    /\ procs = [p \in Procs |-> IdleProc]
    /\ clock = 0
    /\ ncalls = 0
    /\ env = [USE_S3 |-> IF use_s3 THEN "true" ELSE "false",
              S3_BUCKET_NAME |-> IF use_s3 THEN "b1" ELSE Unset]
    /\ boto3_available = TRUE
    /\ instances = <<NewManager(DefaultDir, "None", "None", TRUE).self>>
    /\ conversation_manager = 1
    /\ got = NoCall
    /\ nmgr = 0

\* a caller starts an operation
Call(p, op, id, question, answer, history) ==
    /\ procs[p].pc \in {"idle", "done", "raised"}
    /\ ncalls < MaxCalls
    /\ ncalls' = ncalls + 1
    /\ procs' = [procs EXCEPT ![p] =
          [IdleProc EXCEPT
             !.pc = "called", !.op = op, !.id = id,
             !.question = question, !.answer = answer, !.history = history,
             !.call = ncalls + 1,
             !.retry = IF /\ procs[p].pc = "raised"
                          /\ procs[p].op = "save" /\ op = "save"
                          /\ procs[p].err = "write"
                          /\ procs[p].id = id
                          /\ procs[p].question = question
                          /\ procs[p].answer = answer
                          /\ procs[p].history = history
                       THEN procs[p].call ELSE 0]]
    /\ UNCHANGED <<use_s3, storage, clock>>
    /\ UNCHANGED mgrvars

\* save_interaction, lines 121-164: load, merge the history, append the
\* question and the answer, set updated_at
SaveLoadMerge(p, fault, rs) ==
    LET me == procs[p]
        ld == LoadFromStorage(me.id, fault, rs[1])
    IN
    /\ me.pc = "called" /\ me.op = "save"
    /\ IF ld.raised
       THEN /\ procs' = [procs EXCEPT ![p].pc = "raised", ![p].err = "read",
                                      ![p].seen = storage[KeyOf(me.id)].state,
                                      ![p].fault = fault,
                                      ![p].rd = ld.rd, ![p].nreads = @ + 1]
            /\ UNCHANGED clock
       ELSE /\ procs' = [procs EXCEPT
                  ![p].pc = "loaded", ![p].rd = ld.rd, ![p].nreads = @ + 1,
                  ![p].seen = storage[KeyOf(me.id)].state, ![p].fault = fault,
                  ![p].snap = ld.data,
                  ![p].data = UpdateConversation(ld.data, me.question,
                                  me.answer, me.history, rs, me.call)]
            /\ clock' = rs[Len(rs)]
    /\ UNCHANGED <<use_s3, storage, ncalls>>
    /\ UNCHANGED mgrvars

\* faulty variant: a write that fails is tried again
SaveWrite_Retrying(p, outcome) ==
    LET me == procs[p] IN
    /\ me.pc = "loaded" /\ me.op = "save"
    /\ outcome \in WriteOutcomes
    /\ storage' = [storage EXCEPT
                     ![KeyOf(me.id)] = SaveToStorage(me.id, me.data, outcome)]
    /\ procs' = [procs EXCEPT
          ![p].pc = IF outcome = "ok" THEN "done"
                    ELSE IF me.nwrites = 0 THEN "loaded" ELSE "raised",
          ![p].err = IF outcome = "ok" THEN "none" ELSE "write",
          ![p].nwrites = @ + 1]
    /\ UNCHANGED <<use_s3, clock, ncalls>>
    /\ UNCHANGED mgrvars

\* save_interaction, line 167: the backend write
SaveWrite(p, outcome) ==
    LET me == procs[p] IN
    /\ me.pc = "loaded" /\ me.op = "save"
    /\ outcome \in WriteOutcomes
    /\ storage' = [storage EXCEPT
                     ![KeyOf(me.id)] = SaveToStorage(me.id, me.data, outcome)]
    /\ procs' = [procs EXCEPT
          ![p].pc = IF outcome = "ok" THEN "done" ELSE "raised",
          ![p].err = IF outcome = "ok" THEN "none" ELSE "write",
          ![p].nwrites = @ + 1]
    /\ UNCHANGED <<use_s3, clock, ncalls>>
    /\ UNCHANGED mgrvars

\* faulty variant: the empty structure made for a missing id is stored
GetConversationHistory_Persisting(p, fault, now) ==
    LET me == procs[p]
        ld == LoadFromStorage(me.id, fault, now)
    IN
    /\ me.pc = "called" /\ me.op = "history"
    /\ procs' = [procs EXCEPT
          ![p].pc = IF ld.raised THEN "raised" ELSE "done",
          ![p].err = IF ld.raised THEN "read" ELSE "none",
          ![p].rd = ld.rd, ![p].nreads = @ + 1,
          ![p].seen = storage[KeyOf(me.id)].state, ![p].fault = fault,
          ![p].snap = ld.data, ![p].data = ld.data,
          ![p].ret = ld.data.messages]
    /\ clock' = IF ld.rd = "notfound" THEN now ELSE clock
    /\ storage' = IF ld.rd = "notfound"
                  THEN [storage EXCEPT ![KeyOf(me.id)] = Stored(ld.data)]
                  ELSE storage
    /\ UNCHANGED <<use_s3, ncalls>>
    /\ UNCHANGED mgrvars

\* get_conversation_history, lines 208-209
GetConversationHistory(p, fault, now) ==
    LET me == procs[p]
        ld == LoadFromStorage(me.id, fault, now)
    IN
    /\ me.pc = "called" /\ me.op = "history"
    /\ procs' = [procs EXCEPT
          ![p].pc = IF ld.raised THEN "raised" ELSE "done",
          ![p].err = IF ld.raised THEN "read" ELSE "none",
          ![p].rd = ld.rd, ![p].nreads = @ + 1,
          ![p].seen = storage[KeyOf(me.id)].state, ![p].fault = fault,
          ![p].snap = ld.data, ![p].data = ld.data,
          ![p].ret = ld.data.messages]
    /\ clock' = IF ld.rd = "notfound" THEN now ELSE clock
    /\ UNCHANGED <<use_s3, storage, ncalls>>
    /\ UNCHANGED mgrvars

\* format_as_prompt_template, lines 179-196
FormatAsPromptTemplate(p, fault, now) ==
    LET me == procs[p]
        ld == LoadFromStorage(me.id, fault, now)
    IN
    /\ me.pc = "called" /\ me.op = "format"
    /\ procs' = [procs EXCEPT
          ![p].pc = IF ld.raised THEN "raised" ELSE "done",
          ![p].err = IF ld.raised THEN "read" ELSE "none",
          ![p].rd = ld.rd, ![p].nreads = @ + 1,
          ![p].seen = storage[KeyOf(me.id)].state, ![p].fault = fault,
          ![p].snap = ld.data, ![p].data = ld.data,
          ![p].text = FormatPrompt(ld.data)]
    /\ clock' = IF ld.rd = "notfound" THEN now ELSE clock
    /\ UNCHANGED <<use_s3, storage, ncalls>>
    /\ UNCHANGED mgrvars

\* generate_conversation_id, lines 211-213: str(uuid4()), the whole call
GenerateConversationId(p, uuid) ==
    /\ procs[p].pc \in {"idle", "done", "raised"}
    /\ ncalls < MaxCalls
    /\ ncalls' = ncalls + 1
    /\ procs' = [procs EXCEPT ![p] =
          [IdleProc EXCEPT !.pc = "done", !.op = "generate",
                           !.call = ncalls + 1, !.text = uuid]]
    /\ UNCHANGED <<use_s3, storage, clock>>
    /\ UNCHANGED mgrvars

\* the steps of the callers in ps, with inputs drawn from the given sets
Steps(ps, ids, questions, histories) ==
    \/ \E p \in ps, id \in ids, q \in questions,
          a \in Answers, h \in histories : Call(p, "save", id, q, a, h)
    \/ \E p \in ps, id \in ids, op \in {"history", "format"} :
          Call(p, op, id, IdleProc.question, IdleProc.answer, <<>>)
    \/ \E p \in ps, fault \in BOOLEAN :
          \E rs \in ClockReadings(clock, Len(procs[p].history) + 4) :
             SaveLoadMerge(p, fault, rs)
    \/ \E p \in ps, outcome \in {"ok", "refused", "partial"} :
          SaveWrite(p, outcome)
    \/ \E p \in ps, fault \in BOOLEAN, now \in clock..MaxClock :
          GetConversationHistory(p, fault, now)
    \/ \E p \in ps, fault \in BOOLEAN, now \in clock..MaxClock :
          FormatAsPromptTemplate(p, fault, now)

\* concurrent callers
Next == Steps(Procs, RaceIds, RaceQuestions, RaceHistories)

Spec == Init /\ [][Next]_vars

\* one caller, one call after the other
NextSeq == Steps({"p1"}, SeqIds, RaceQuestions, Histories)

SpecSeq == Init /\ [][NextSeq]_vars

\* one caller using the read-side operations next to save_interaction,
\* on two conversation ids
NextRead ==
    \/ Steps({"p1"}, ConvIds, RaceQuestions, RaceHistories)
    \/ \E uuid \in Uuids : GenerateConversationId("p1", uuid)

SpecRead == Init /\ [][NextRead]_vars

\* ---------------------------------------------------------------- query_rag

\* schemas.py line 25 and rag_service.py line 126: the least length of a question
MinLength == 10

\* rag_service.py line 128: the answer given to a question that is too short
Rejection == "Please provide a question with at least 10 characters."

\* request.conversation_id: None, the empty string, an id
RequestIds == {"None", "", "c1"}

\* request.question: ten characters that strip to two, and a full question
QueryQuestions == {"   hi     ", "what is pto?"}

\* request.conversation_history
RequestHistories == {<<>>, <<Entry("user", "old")>>}

\* what the retriever finds for the citations
RetrievedDocs == {<<"doc1">>}

\* str.lstrip() on blanks
RECURSIVE LStrip(_)
LStrip(s) ==
    IF Len(s) > 0 /\ SubSeq(s, 1, 1) = " "
    THEN LStrip(SubSeq(s, 2, Len(s)))
    ELSE s

\* str.rstrip() on blanks
RECURSIVE RStrip(_)
RStrip(s) ==
    IF Len(s) > 0 /\ SubSeq(s, Len(s), Len(s)) = " "
    THEN RStrip(SubSeq(s, 1, Len(s) - 1))
    ELSE s

\* faulty variant: the question is measured as it was sent
Strip_AsSent(s) == s

\* rag_service.py line 126: question.strip()
Strip(s) == RStrip(LStrip(s))

\* the truth value of a conversation id: None and "" are false
Truthy(conversation_id) == conversation_id \notin {"None", ""}

\* main.py lines 154-157, rag_service.py lines 136-139: the stored messages
\* as {role, content} entries
AsEntries(messages) ==
    [i \in 1..Len(messages) |-> Entry(messages[i].role, messages[i].content)]

\* a dict without the key "conversation_id"
NoKey == "<no key>"

\* faulty variant: the id of the result only
ReturnedConversationId_ResultOnly(result_id, conversation_id) ==
    IF result_id # NoKey THEN result_id ELSE "None"

\* main.py line 174: result.get("conversation_id", conversation_id)
ReturnedConversationId(result_id, conversation_id) ==
    IF result_id # NoKey THEN result_id ELSE conversation_id

\* main.py lines 180-184: the RAGResponse of a request that succeeded
Response(answer, conversation_id, sources) ==
    [status |-> 200, answer |-> answer, conversation_id |-> conversation_id,
     sources |-> sources]

\* main.py lines 185-202: the HTTPException of a request that failed
HttpError(status) ==
    [status |-> status, answer |-> "", conversation_id |-> "None",
     sources |-> <<>>]

\* faulty variant: the history of the request is used whatever is stored
RoutedHistory_RequestFirst(stored_history, request_history) ==
    IF request_history # <<>> THEN request_history
    ELSE AsEntries(stored_history)

\* main.py lines 147-165: the history handed to rag_service.query
RoutedHistory(stored_history, request_history) ==
    IF stored_history # <<>> THEN AsEntries(stored_history)
    ELSE request_history

\* main.py lines 134-165: the id of the conversation is fixed, the store is
\* read, the history is chosen
QueryRag(p, request_id, question, request_history, uuid, fault, now) ==
    LET conversation_id == IF Truthy(request_id) THEN request_id ELSE uuid
        ld == LoadFromStorage(conversation_id, fault, now)
    IN
    /\ procs[p].pc \in {"idle", "done", "raised"}
    /\ ncalls < MaxCalls
    /\ Len(question) >= MinLength
    /\ ncalls' = ncalls + 1
    /\ procs' = [procs EXCEPT ![p] =
          [IdleProc EXCEPT
             !.op = "query", !.call = ncalls + 1,
             !.request = [conversation_id |-> request_id,
                          conversation_history |-> request_history],
             !.id = conversation_id, !.question = question,
             !.pc = IF ld.raised THEN "raised" ELSE "routed",
             !.err = IF ld.raised THEN "read" ELSE "none",
             !.rd = ld.rd, !.nreads = 1, !.fault = fault,
             !.seen = storage[KeyOf(conversation_id)].state,
             !.ret = ld.data.messages,
             !.history = IF ld.raised THEN <<>>
                         ELSE RoutedHistory(ld.data.messages, request_history),
             !.response = IF ld.raised THEN HttpError(500)
                          ELSE IdleProc.response]]
    /\ clock' = IF ld.rd = "notfound" THEN now ELSE clock
    /\ UNCHANGED <<use_s3, storage>>
    /\ UNCHANGED mgrvars

\* rag_service.py lines 126-221: the early return for a short question;
\* otherwise the stored history is read when none was handed over, and the
\* chain produces the answer (llm: the answer, or "raised") and the documents
Query(p, fault, now, llm, docs) ==
    LET me   == procs[p]
        read == Truthy(me.id) /\ me.history = <<>>
        ld   == LoadFromStorage(me.id, fault, now)
    IN
    /\ me.pc = "routed" /\ me.op = "query"
    /\ IF Len(Strip(me.question)) < MinLength
       THEN /\ procs' = [procs EXCEPT
                  ![p].pc = "done",
                  ![p].response =
                      Response(Rejection,
                               ReturnedConversationId(NoKey, me.id), <<>>)]
            /\ UNCHANGED clock
       ELSE IF read /\ ld.raised
       THEN /\ procs' = [procs EXCEPT
                  ![p].pc = "raised", ![p].err = "read", ![p].rd = ld.rd,
                  ![p].nreads = @ + 1, ![p].fault = fault,
                  ![p].response = HttpError(500)]
            /\ UNCHANGED clock
       ELSE /\ procs' = [procs EXCEPT
                  ![p].pc = IF llm = "raised" THEN "raised" ELSE "answered",
                  ![p].err = IF llm = "raised" THEN "chain" ELSE "none",
                  ![p].nreads = IF read THEN @ + 1 ELSE @,
                  ![p].history = IF read /\ ld.data.messages # <<>>
                                 THEN AsEntries(ld.data.messages) ELSE @,
                  ![p].answer = IF llm = "raised" THEN @ ELSE llm,
                  ![p].docs = IF llm = "raised" THEN @ ELSE docs,
                  ![p].response = IF llm = "raised" THEN HttpError(500) ELSE @]
            /\ clock' = IF read /\ ld.rd = "notfound" THEN now ELSE clock
    /\ UNCHANGED <<use_s3, storage, ncalls>>
    /\ UNCHANGED mgrvars

\* rag_service.py lines 223-233 with save_interaction lines 121-164: an id
\* is generated if there is none, the transcript is loaded and updated
QuerySaveLoadMerge(p, uuid, fault, rs) ==
    LET me == procs[p]
        conversation_id == IF Truthy(me.id) THEN me.id ELSE uuid
        ld == LoadFromStorage(conversation_id, fault, rs[1])
    IN
    /\ me.pc = "answered" /\ me.op = "query"
    /\ IF ld.raised
       THEN /\ procs' = [procs EXCEPT
                  ![p].pc = "raised", ![p].err = "read", ![p].rd = ld.rd,
                  ![p].nreads = @ + 1, ![p].fault = fault,
                  ![p].saved_id = conversation_id,
                  ![p].response = HttpError(500)]
            /\ UNCHANGED clock
       ELSE /\ procs' = [procs EXCEPT
                  ![p].pc = "merged", ![p].rd = ld.rd, ![p].nreads = @ + 1,
                  ![p].fault = fault,
                  ![p].saved_id = conversation_id,
                  ![p].snap = ld.data,
                  ![p].data = UpdateConversation(ld.data, me.question,
                                  me.answer, me.history, rs, me.call)]
            /\ clock' = rs[Len(rs)]
    /\ UNCHANGED <<use_s3, storage, ncalls>>
    /\ UNCHANGED mgrvars

\* save_interaction line 167, rag_service.py lines 235-239, main.py lines
\* 174-184: the backend write, the result, the response
QuerySaveWrite(p, outcome) ==
    LET me == procs[p] IN
    /\ me.pc = "merged" /\ me.op = "query"
    /\ outcome \in WriteOutcomes
    /\ storage' = [storage EXCEPT
          ![KeyOf(me.saved_id)] = SaveToStorage(me.saved_id, me.data, outcome)]
    /\ procs' = [procs EXCEPT
          ![p].pc = IF outcome = "ok" THEN "done" ELSE "raised",
          ![p].err = IF outcome = "ok" THEN "none" ELSE "write",
          ![p].nwrites = @ + 1,
          ![p].response =
              IF outcome = "ok"
              THEN Response(me.answer,
                            ReturnedConversationId(me.saved_id, me.id),
                            me.docs)
              ELSE HttpError(500)]
    /\ UNCHANGED <<use_s3, clock, ncalls>>
    /\ UNCHANGED mgrvars

\* the steps of the requests handled by the workers in ps, with inputs,
\* backend faults and write outcomes drawn from the given sets
Requests(ps, ids, questions, histories, faults, outcomes) ==
    \/ \E p \in ps, id \in ids, q \in questions, h \in histories,
          uuid \in QueryUuids, fault \in faults, now \in clock..MaxQueryClock :
             QueryRag(p, id, q, h, uuid, fault, now)
    \/ \E p \in ps, fault \in faults, now \in clock..MaxQueryClock,
          llm \in Answers \cup {"raised"}, docs \in RetrievedDocs :
             Query(p, fault, now, llm, docs)
    \/ \E p \in ps, uuid \in QueryUuids, fault \in faults :
          \E rs \in ClockReadingsUpTo(clock, MaxQueryClock,
                                     Len(procs[p].history) + 4) :
             QuerySaveLoadMerge(p, uuid, fault, rs)
    \/ \E p \in ps, outcome \in outcomes : QuerySaveWrite(p, outcome)

\* one request after the other
NextQuery ==
    Requests({"p1"}, RequestIds, QueryQuestions, RequestHistories,
             BOOLEAN, {"ok", "refused", "partial"})

SpecQuery == Init /\ [][NextQuery]_vars

\* requests on one conversation handled concurrently, as the worker
\* threads of the endpoint do, over a backend that does not fail
NextQueryRace ==
    Requests(Procs, RaceIds, {"what is pto?"}, RequestHistories,
             {FALSE}, {"ok"})

SpecQueryRace == Init /\ [][NextQueryRace]_vars

\* os.environ[name] = value, or del os.environ[name]: the configuration of
\* the process changes
SetEnv(name, value) ==
    /\ env[name] # value
    /\ env' = [env EXCEPT ![name] = value]
    /\ UNCHANGED <<boto3_available, conversation_manager, instances, got, nmgr>>
    /\ UNCHANGED storevars

\* the record of a call on the manager side
Got(call, raised, oid, use_s3_arg, s3_bucket_arg) ==
    [call |-> call, raised |-> raised, oid |-> oid, env |-> env,
     use_s3_arg |-> use_s3_arg, s3_bucket_arg |-> s3_bucket_arg,
     storage_dir |-> NoAttr,
     held |-> conversation_manager, made |-> Len(instances)]

\* faulty variant: the instance held is returned whatever the configuration
GetConversationManager_NeverRebuilds(storage_dir_arg, io_ok) ==
    LET storage_dir == IF storage_dir_arg = "None" THEN DefaultDir
                       ELSE storage_dir_arg
        use     == Lower(GetEnv("USE_S3", "false")) = "true"
        bucket  == GetEnv("S3_BUCKET_NAME", "")
        new     == NewManager(storage_dir, IF use THEN "True" ELSE "False",
                              bucket, io_ok)
    IN
    /\ nmgr < MaxMgrCalls
    /\ nmgr' = nmgr + 1
    /\ IF conversation_manager = 0 /\ new.raised = "none"
       THEN /\ instances' = Append(instances, new.self)
            /\ conversation_manager' = Len(instances) + 1
            /\ got' = [Got("get", "none", Len(instances) + 1, "None", "None")
                        EXCEPT !.storage_dir = storage_dir]
       ELSE /\ UNCHANGED <<instances, conversation_manager>>
            /\ got' = [Got("get", IF conversation_manager = 0 THEN new.raised
                                  ELSE "none",
                           conversation_manager, "None", "None")
                        EXCEPT !.storage_dir = storage_dir]
    /\ UNCHANGED <<env, boto3_available>>
    /\ UNCHANGED storevars

\* get_conversation_manager, lines 220-255, the whole call.  MEMORY_DIR is
\* not set.
GetConversationManager(storage_dir_arg, io_ok) ==
    LET storage_dir == IF storage_dir_arg = "None" THEN DefaultDir
                       ELSE storage_dir_arg
        use     == Lower(GetEnv("USE_S3", "false")) = "true"
        bucket  == GetEnv("S3_BUCKET_NAME", "")
        rebuild == \/ conversation_manager = 0
                   \/ instances[conversation_manager].use_s3 # use
                   \/ instances[conversation_manager].s3_bucket # bucket
        new     == NewManager(storage_dir, IF use THEN "True" ELSE "False",
                              bucket, io_ok)
    IN
    /\ nmgr < MaxMgrCalls
    /\ nmgr' = nmgr + 1
    /\ IF rebuild /\ new.raised = "none"
       THEN /\ instances' = Append(instances, new.self)
            /\ conversation_manager' = Len(instances) + 1
            /\ got' = [Got("get", "none", Len(instances) + 1, "None", "None")
                        EXCEPT !.storage_dir = storage_dir]
       ELSE /\ UNCHANGED <<instances, conversation_manager>>
            /\ got' = [Got("get", IF rebuild THEN new.raised ELSE "none",
                           IF rebuild THEN 0 ELSE conversation_manager,
                           "None", "None")
                        EXCEPT !.storage_dir = storage_dir]
    /\ UNCHANGED <<env, boto3_available>>
    /\ UNCHANGED storevars

\* ConversationHistoryManager(storage_dir, use_s3, s3_bucket) called
\* directly, lines 21-48
Construct(storage_dir, use_s3_arg, s3_bucket_arg, io_ok) ==
    LET new == NewManager(storage_dir, use_s3_arg, s3_bucket_arg, io_ok) IN
    /\ nmgr < MaxMgrCalls
    /\ nmgr' = nmgr + 1
    /\ IF new.raised = "none"
       THEN /\ instances' = Append(instances, new.self)
            /\ got' = Got("new", "none", Len(instances) + 1,
                          use_s3_arg, s3_bucket_arg)
       ELSE /\ UNCHANGED instances
            /\ got' = Got("new", new.raised, 0, use_s3_arg, s3_bucket_arg)
    /\ UNCHANGED <<env, boto3_available, conversation_manager>>
    /\ UNCHANGED storevars

\* a load or a save on an existing instance reaches for its backend
\* (lines 60-64, 78-80, 90-101); fault: the backend fails
ManagerAccess(oid, fault) ==
    LET raised == AccessError(instances[oid]) IN
    /\ nmgr < MaxMgrCalls
    /\ nmgr' = nmgr + 1
    /\ got' = Got("access", IF raised # "none" THEN raised
                            ELSE IF fault THEN "Exception" ELSE "none",
                  oid, "None", "None")
    /\ UNCHANGED <<env, boto3_available, conversation_manager, instances>>
    /\ UNCHANGED storevars

\* one caller who imports histories and formats the transcript
NextFmt == Steps({"p1"}, SeqIds, Questions, FmtHistories)

SpecFmt == Init /\ [][NextFmt]_vars

\* one caller on several conversation ids, two of them differing by a "./"
\* only; no history is imported
NextIso == Steps({"p1"}, AllIds, RaceQuestions, {<<>>})

SpecIso == Init /\ [][NextIso]_vars

\* a process before the first call of get_conversation_manager
InitMgr ==
    /\ use_s3 = FALSE
    /\ storage = [k \in StorageKeys |-> Absent]
    /\ procs = [p \in Procs |-> IdleProc]
    /\ clock = 0
    /\ ncalls = 0
    /\ env = [USE_S3 |-> Unset, S3_BUCKET_NAME |-> Unset]
    /\ boto3_available \in BOOLEAN
    /\ instances = <<>>
    /\ conversation_manager = 0
    /\ got = NoCall
    /\ nmgr = 0

NextMgr ==
    \/ \E value \in UseS3Values : SetEnv("USE_S3", value)
    \/ \E value \in BucketValues : SetEnv("S3_BUCKET_NAME", value)
    \/ \E storage_dir_arg \in {"None", "d1"}, io_ok \in BOOLEAN :
          GetConversationManager(storage_dir_arg, io_ok)
    \/ \E use_s3_arg \in {"None", "True", "False"},
          s3_bucket_arg \in {"None", "", "b1"}, io_ok \in BOOLEAN :
          Construct("d1", use_s3_arg, s3_bucket_arg, io_ok)
    \/ \E oid \in 1..Len(instances), fault \in BOOLEAN :
          ManagerAccess(oid, fault)

SpecMgr == InitMgr /\ [][NextMgr]_vars

\* ---------------------------------------------------------------- properties

IsPrefix(s, t) == Len(s) <= Len(t) /\ SubSeq(t, 1, Len(s)) = s

\* the (role, content) pair of a message
RoleContent(m) == Entry(m.role, m.content)

RoleContents(messages) == [k \in 1..Len(messages) |-> RoleContent(messages[k])]

\* the callers whose save_interaction has returned normally
SavedBy == {p \in Procs : procs[p].op = "save" /\ procs[p].pc = "done"}

\* the callers whose save_interaction has finished its in-memory update
UpdatedBy == {p \in Procs : procs[p].op = "save" /\ procs[p].pc \in {"loaded", "done"}}

\* the entries of H that are neither in P nor repeated from earlier in H
KeptEntries(P, H) ==
    {i \in 1..Len(H) :
        /\ \A k \in 1..Len(P) : RoleContent(P[k]) # H[i]
        /\ \A j \in 1..(i-1) : H[j] # H[i]}

\* the entries of H at the positions S, in the order of H
Pick(H, S) ==
    [n \in 1..Cardinality(S) |->
        H[CHOOSE i \in S : Cardinality({j \in S : j < i}) = n - 1]]

\* C1: a successful save_interaction(id, q, a, H) on the stored transcript P
\* stores the messages of P unchanged and in order, then the entries of H
\* that passed the duplicate check in the order given, then a user message
\* holding q, then an assistant message holding a; on an empty transcript
\* with no history the stored messages are [user q, assistant a].
C1_SaveStoresPriorMergedPair ==
    \A p \in SavedBy :
        LET me == procs[p]
            P  == me.snap.messages
            H  == me.history
            M  == storage[KeyOf(me.id)].doc.messages
        IN /\ storage[KeyOf(me.id)].state = "ok"
           /\ IsPrefix(P, M)
           /\ RoleContents(M) =
                 RoleContents(P) \o Pick(H, KeptEntries(P, H))
                    \o <<Entry("user", me.question), Entry("assistant", me.answer)>>
           /\ (P = <<>> /\ H = <<>>) =>
                 RoleContents(M) =
                    <<Entry("user", me.question), Entry("assistant", me.answer)>>

\* a save on a non-empty transcript whose history had an entry that passed
\* the duplicate check and an entry that did not
C1_Witness ==
    \E p \in SavedBy :
        LET P == procs[p].snap.messages
            H == procs[p].history
        IN /\ P # <<>>
           /\ KeptEntries(P, H) # {}
           /\ KeptEntries(P, H) # 1..Len(H)

\* the positions in M of the messages that call c appended for entry i of
\* its imported history
AppendedFor(M, c, i) ==
    {k \in 1..Len(M) :
        M[k].origin = "history" /\ M[k].call = c /\ M[k].src = i}

\* the positions in M of the messages that were in the transcript when call c
\* considered entry i: the n loaded ones and those appended for earlier entries
InTranscriptAt(M, n, c, i) ==
    {k \in 1..Len(M) :
        \/ k <= n
        \/ M[k].origin = "history" /\ M[k].call = c /\ M[k].src < i}

\* C2: in the merge step of save_interaction an imported history entry is
\* appended as a message if and only if no message already in the transcript
\* has the same (role, content) pair; entries are considered in the order given.
C2_MergeAppendsIffNotPresent ==
    \A p \in UpdatedBy :
        LET me == procs[p]
            M  == me.data.messages
            n  == Len(me.snap.messages)
            H  == me.history
        IN /\ \A i \in 1..Len(H) :
                /\ (AppendedFor(M, me.call, i) # {}) <=>
                      ~ \E k \in InTranscriptAt(M, n, me.call, i) :
                            RoleContent(M[k]) = H[i]
                /\ Cardinality(AppendedFor(M, me.call, i)) <= 1
                /\ \A k \in AppendedFor(M, me.call, i) :
                      k > n /\ RoleContent(M[k]) = H[i]
           /\ \A i, j \in 1..Len(H) :
                \A k \in AppendedFor(M, me.call, i), l \in AppendedFor(M, me.call, j) :
                    i < j => k < l

\* a merge that appended one entry and rejected another, on a transcript
\* that holds a message with the same content under another role
C2_Witness ==
    \E p \in UpdatedBy :
        LET me == procs[p]
            M  == me.data.messages
            P  == me.snap.messages
            H  == me.history
        IN /\ \E i \in 1..Len(H) : AppendedFor(M, me.call, i) # {}
           /\ \E i \in 1..Len(H) : AppendedFor(M, me.call, i) = {}
           /\ \E i \in 1..Len(H), k \in 1..Len(P) :
                 /\ AppendedFor(M, me.call, i) # {}
                 /\ P[k].content = H[i].content

\* every entry of H matches a message of P on (role, content)
AllStored(P, H) ==
    \A i \in 1..Len(H) : \E k \in 1..Len(P) : RoleContent(P[k]) = H[i]

\* C3: the history merge is idempotent: when every entry of the imported
\* history matches a stored message, save_interaction adds exactly the
\* question and the answer; and no stored transcript ever holds a message
\* merged from a history that repeats an earlier message of that transcript,
\* however often the history is resent.
C3_MergeIdempotent ==
    /\ \A p \in UpdatedBy :
          LET me == procs[p]
              P  == me.snap.messages
              M  == me.data.messages
          IN (me.history # <<>> /\ AllStored(P, me.history)) =>
                /\ Len(M) = Len(P) + 2
                /\ IsPrefix(P, M)
                /\ M[Len(P) + 1].origin = "question"
                /\ M[Len(P) + 2].origin = "answer"
    /\ \A c \in ConvIds :
          LET M == storage[KeyOf(c)].doc.messages IN
          \A k \in 1..Len(M) :
              M[k].origin = "history" =>
                 \A j \in 1..(k-1) : RoleContent(M[j]) # RoleContent(M[k])

\* a history that an earlier call merged is sent again and the call succeeds
C3_Witness ==
    \E p \in SavedBy :
        LET me == procs[p]
            P  == me.snap.messages
        IN /\ me.history # <<>>
           /\ AllStored(P, me.history)
           /\ \E k \in 1..Len(P) :
                 P[k].origin = "history" /\ RoleContent(P[k]) = me.history[1]
           /\ Len(storage[KeyOf(me.id)].doc.messages) = Len(P) + 2

\* what a message holds in the stored document, without the ghost fields
Written(messages) ==
    [k \in 1..Len(messages) |->
        [role |-> messages[k].role, content |-> messages[k].content,
         timestamp |-> messages[k].timestamp]]

\* C4: the stored message sequence of a conversation only grows by appends:
\* across every backend write that stores a transcript for a conversation,
\* under any interleaving of calls, the message sequence stored before the
\* write is a prefix of the message sequence stored after it.
C4_StoredMessagesOnlyGrow ==
    [][\A c \in ConvIds :
          (storage[KeyOf(c)].state = "ok" /\ storage'[KeyOf(c)].state = "ok") =>
             IsPrefix(Written(storage[KeyOf(c)].doc.messages),
                      Written(storage'[KeyOf(c)].doc.messages))]_vars

\* C5: no half interaction is durable: in every stored transcript each
\* message appended as the question of a call is a user message immediately
\* followed by the assistant message appended as the answer of the same call
\* (holding that call's question and answer), and a stored transcript is
\* never empty and ends with such a pair.
C5_NoHalfInteractionStored ==
    \A c \in ConvIds :
        LET M == storage[KeyOf(c)].doc.messages IN
        storage[KeyOf(c)].state = "ok" =>
           /\ Len(M) >= 2
           /\ M[Len(M)].origin = "answer"
           /\ M[Len(M) - 1].origin = "question"
           /\ \A k \in 1..Len(M) :
                 M[k].origin = "question" =>
                    /\ k < Len(M)
                    /\ M[k].role = "user"
                    /\ M[k + 1].origin = "answer"
                    /\ M[k + 1].role = "assistant"
                    /\ M[k + 1].call = M[k].call
                    /\ \A p \in Procs :
                          (procs[p].op = "save" /\ procs[p].call = M[k].call) =>
                             /\ M[k].content = procs[p].question
                             /\ M[k + 1].content = procs[p].answer
           /\ \A k \in 1..Len(M) :
                 M[k].origin = "answer" => k > 1 /\ M[k - 1].origin = "question"

\* a transcript written by two calls is stored while a later write on it
\* has failed
C5_Witness ==
    \E c \in ConvIds, p \in Procs :
        /\ storage[KeyOf(c)].state = "ok"
        /\ Len(storage[KeyOf(c)].doc.messages) >= 4
        /\ procs[p].id = c /\ procs[p].pc = "raised" /\ procs[p].err = "write"

\* C6: when the backend write of save_interaction fails, the failure
\* propagates and durable storage is exactly what it was before the write.
C6_FailedWriteLeavesStorage ==
    [][\A p \in Procs :
          (procs[p].pc = "loaded" /\ procs'[p].pc # "loaded"
              /\ procs'[p].err = "write") =>
             /\ procs'[p].pc = "raised"
             /\ storage' = storage]_vars

\* the call number of the call whose write is the stored one
LastWriter(c) ==
    LET M == storage[KeyOf(c)].doc.messages IN
    IF storage[KeyOf(c)].state = "ok" /\ M # <<>> THEN M[Len(M)].call ELSE 0

\* both callers have saved on conversation c from the same loaded messages,
\* and the write of w is the stored one
RaceWonBy(l, w, c) ==
    /\ l # w
    /\ l \in SavedBy /\ w \in SavedBy
    /\ procs[l].id = c /\ procs[w].id = c
    /\ procs[l].snap.messages = procs[w].snap.messages
    /\ LastWriter(c) = procs[w].call

\* C7: last writer wins: whenever two concurrent save_interaction calls on
\* one conversation id have loaded the same prior state and both have
\* completed without error, the stored transcript is the one the later
\* writer wrote and holds no message of the earlier writer's call.
C7_LastWriterWins ==
    \A l, w \in Procs, c \in ConvIds :
        RaceWonBy(l, w, c) =>
           /\ storage[KeyOf(c)].doc = procs[w].data
           /\ \A k \in 1..Len(storage[KeyOf(c)].doc.messages) :
                 storage[KeyOf(c)].doc.messages[k].call # procs[l].call

\* the race has happened: the earlier writer's interaction is lost
C7_Witness ==
    \E l, w \in Procs, c \in ConvIds :
        /\ RaceWonBy(l, w, c)
        /\ procs[l].nwrites = 1 /\ procs[w].nwrites = 1
        /\ procs[l].call < procs[w].call
        /\ ~ \E k \in 1..Len(storage[KeyOf(c)].doc.messages) :
               storage[KeyOf(c)].doc.messages[k].call = procs[l].call

\* the callers whose save_interaction is a retry (same arguments) of their
\* call that failed in the backend write, and has returned normally
RetriedBy == {p \in SavedBy : procs[p].retry # 0}

\* the number of turns of M that hold question q and answer a
Turns(M, q, a) ==
    Cardinality({k \in 1..(Len(M) - 1) :
        /\ RoleContent(M[k]) = Entry("user", q)
        /\ RoleContent(M[k + 1]) = Entry("assistant", a)})

\* the number of messages of M appended as the question q of a call
Asked(M, q) ==
    Cardinality({k \in 1..Len(M) :
        M[k].origin = "question" /\ M[k].content = q})

\* C8 as stated: after the retry of a failed save_interaction the stored
\* transcript holds the question/answer turn more than once.
C8_RetryDuplicatesTurn ==
    \A p \in RetriedBy :
        Turns(storage[KeyOf(procs[p].id)].doc.messages,
              procs[p].question, procs[p].answer) >= 2

\* C8 (amended): the retry of a save_interaction whose write failed appends
\* the question/answer pair once, without a duplicate check, to the
\* transcript it loads: the stored transcript holds no message of the failed
\* call and one more message asking the question than the loaded transcript.
C8_RetryAppendsPairOnce ==
    \A p \in RetriedBy :
        LET me == procs[p]
            M  == storage[KeyOf(me.id)].doc.messages
        IN /\ storage[KeyOf(me.id)].state = "ok"
           /\ \A k \in 1..Len(M) : M[k].call # me.retry
           /\ Asked(M, me.question) = Asked(me.snap.messages, me.question) + 1

\* a retry has succeeded and the stored transcript holds the turn once
C8_Witness ==
    \E p \in RetriedBy :
        /\ procs[p].seen = "absent"
        /\ Turns(storage[KeyOf(procs[p].id)].doc.messages,
                 procs[p].question, procs[p].answer) = 1

\* C9: loading a conversation id that has no stored transcript, the backend
\* reporting not-found, never raises and yields a transcript with that id
\* and an empty message list, on both backends.
C9_MissingLoadsEmpty ==
    \A p \in Procs :
        (procs[p].seen = "absent" /\ ~procs[p].fault) =>
           /\ procs[p].err # "read"
           /\ procs[p].pc = "raised" => procs[p].err = "write"
           /\ procs[p].rd = "notfound"
           /\ procs[p].snap.conversation_id = procs[p].id
           /\ procs[p].snap.messages = <<>>
           /\ procs[p].op = "history" => procs[p].ret = <<>>
           /\ procs[p].op = "format" => procs[p].text = ""

\* the object store has reported a missing key to get_conversation_history
C9_Witness ==
    \E p \in Procs :
        /\ use_s3
        /\ procs[p].op = "history" /\ procs[p].pc = "done"
        /\ procs[p].seen = "absent" /\ ~procs[p].fault
        /\ storage[KeyOf(procs[p].id)].state = "absent"

\* C10: when the backend read fails with a fault other than not-found, the
\* operation raises, returns no transcript (in particular not the empty
\* one), and performs no write.
C10_ReadFaultPropagates ==
    \A p \in Procs :
        (procs[p].fault \/ procs[p].seen = "corrupt") =>
           /\ procs[p].pc = "raised"
           /\ procs[p].err = "read"
           /\ procs[p].data = NoDoc
           /\ procs[p].snap = NoDoc
           /\ procs[p].ret = <<>>
           /\ procs[p].text = ""
           /\ procs[p].nwrites = 0

\* a save_interaction has raised on a read fault while a transcript is stored
C10_Witness ==
    \E p \in Procs :
        /\ procs[p].op = "save" /\ procs[p].fault
        /\ procs[p].pc = "raised"
        /\ storage[KeyOf(procs[p].id)].state = "ok"

\* a step of caller p that belongs to a read-side operation: any step of
\* get_conversation_history, format_as_prompt_template or
\* generate_conversation_id, and the load of save_interaction
ReadStep(p) ==
    /\ procs'[p] # procs[p]
    /\ \/ procs'[p].op \in {"history", "format", "generate"}
       \/ /\ procs'[p].op = "save"
          /\ procs[p].pc = "called"

\* C11: a step of a read-side operation (the load of save_interaction,
\* get_conversation_history, format_as_prompt_template,
\* generate_conversation_id) leaves every stored transcript as it was: none
\* is created, modified or deleted, and an id that was absent when it was
\* loaded is absent afterwards.
C11_ReadsLeaveStorage ==
    [][\A p \in Procs :
          ReadStep(p) =>
             /\ storage' = storage
             /\ (procs'[p].nreads = 1 /\ procs'[p].seen = "absent")
                   => storage'[KeyOf(procs'[p].id)] = Absent]_vars

\* format_as_prompt_template has loaded an id that was never saved, next to
\* a stored conversation, and the id is still absent
C11_Witness ==
    /\ procs["p1"].op = "format" /\ procs["p1"].pc = "done"
    /\ procs["p1"].id = "c2" /\ procs["p1"].rd = "notfound"
    /\ storage[KeyOf("c1")].state = "ok"
    /\ storage[KeyOf("c2")] = Absent

Spoken(m) == Lower(m.role) \in {"user", "assistant"}

\* the prompt text of the first k messages of M: the lines of the user and
\* assistant messages so far, a newline between two lines
RECURSIVE PromptUpTo(_, _)
PromptUpTo(M, k) ==
    IF k = 0 THEN ""
    ELSE LET before == PromptUpTo(M, k - 1)
             line   == (IF Lower(M[k].role) = "user" THEN "Human: "
                        ELSE "Assistant: ") \o M[k].content
         IN
         IF ~Spoken(M[k]) THEN before
         ELSE IF before = "" THEN line
         ELSE before \o "\n" \o line

\* the callers whose format_as_prompt_template has returned
FormattedBy == {p \in Procs : procs[p].op = "format" /\ procs[p].pc = "done"}

\* C13: format_as_prompt_template returns "" for a transcript without
\* messages; otherwise the lines "Human: <content>" of the user messages and
\* "Assistant: <content>" of the assistant messages, the role read without
\* regard to letter case, in transcript order with a newline between two
\* lines.
C13_PromptLines ==
    \A p \in FormattedBy :
       LET M == procs[p].snap.messages IN
       /\ M = <<>> => procs[p].text = ""
       /\ procs[p].text = PromptUpTo(M, Len(M))
       /\ RoleContents(M) = <<Entry("user", "hi"), Entry("assistant", "hello")>>
             => procs[p].text = "Human: hi\nAssistant: hello"
       /\ RoleContents(M) = <<Entry("User", "hi"), Entry("user", "bye"),
                              Entry("assistant", "hello")>>
             => procs[p].text = "Human: hi\nHuman: bye\nAssistant: hello"

\* a transcript that holds a message of role "User" has been formatted
C13_Witness ==
    /\ procs["p1"].op = "format" /\ procs["p1"].pc = "done"
    /\ RoleContents(procs["p1"].snap.messages) =
          <<Entry("User", "hi"), Entry("user", "bye"), Entry("assistant", "hello")>>
    /\ procs["p1"].text = "Human: hi\nHuman: bye\nAssistant: hello"

\* C14: a stored message whose role is neither user nor assistant adds
\* nothing to what format_as_prompt_template returns (the text is that of
\* the transcript without such messages, and its length is that of the user
\* and assistant lines and the newlines between them), and
\* get_conversation_history returns it at the position it is stored at.
C14_OtherRolesOmittedButKept ==
    /\ \A p \in FormattedBy :
          LET M     == procs[p].snap.messages
              said  == SelectSeq(M, Spoken)
              chars == [k \in 1..Len(said) |->
                          Len(said[k].content) +
                          (IF Lower(said[k].role) = "user"
                           THEN Len("Human: ") ELSE Len("Assistant: "))]
              Sum[k \in 0..Len(said)] ==
                  IF k = 0 THEN 0 ELSE Sum[k - 1] + chars[k]
          IN
          /\ procs[p].text = PromptUpTo(said, Len(said))
          /\ Len(procs[p].text) =
                Sum[Len(said)] + (IF said = <<>> THEN 0 ELSE Len(said) - 1)
    /\ \A p \in Procs :
          (procs[p].op = "history" /\ procs[p].pc = "done" /\ procs[p].rd = "found")
             => LET D == storage[KeyOf(procs[p].id)].doc.messages IN
                /\ Len(procs[p].ret) = Len(D)
                /\ \A k \in 1..Len(D) :
                      ~Spoken(D[k]) => procs[p].ret[k] = D[k]

\* a transcript with a system message among user and assistant messages
\* has been formatted
C14_Witness ==
    /\ procs["p1"].op = "format" /\ procs["p1"].pc = "done"
    /\ \E k \in 1..Len(procs["p1"].snap.messages) :
          procs["p1"].snap.messages[k].role = "system"
    /\ procs["p1"].text = "Human: hi\nAssistant: hello"

\* C15: in the merge step of save_interaction an imported entry whose role
\* differs only in letter case from the role of a message already in the
\* transcript, and whose content is the same, is taken for a duplicate and
\* is not appended.
C15_MergeIgnoresRoleCase ==
    \A p \in UpdatedBy :
       LET me == procs[p]
           M  == me.data.messages
           n  == Len(me.snap.messages)
           H  == me.history
       IN \A i \in 1..Len(H) :
             (\E k \in InTranscriptAt(M, n, me.call, i) :
                 /\ Lower(M[k].role) = Lower(H[i].role)
                 /\ M[k].role # H[i].role
                 /\ M[k].content = H[i].content)
                => AppendedFor(M, me.call, i) = {}

\* C16: created_at is set once: across every step that leaves a stored
\* transcript under a conversation id, under any interleaving of
\* save_interaction calls, the stored created_at stays what it was.
C16_CreatedAtNeverChanges ==
    [][\A c \in ConvIds :
          (storage[KeyOf(c)].state = "ok" /\ storage'[KeyOf(c)].state = "ok") =>
             JsonLoads(storage'[KeyOf(c)].body).created_at =
                JsonLoads(storage[KeyOf(c)].body).created_at]_vars

C18_NoInternalRetry ==
    \A p \in Procs :
       LET me == procs[p] IN
       /\ me.nreads <= 1 /\ me.nwrites <= 1
       /\ me.pc \in {"loaded", "done", "raised"} => me.nreads = 1
       /\ me.pc = "called" => (me.nreads = 0 /\ me.nwrites = 0)
       /\ me.nwrites = 1 =>
             /\ me.op = "save"
             /\ me.rd \in {"found", "notfound"}
             /\ me.fault = FALSE
       /\ me.op = "save" =>
             /\ me.pc = "loaded" => me.nwrites = 0
             /\ me.pc = "done" => me.nwrites = 1
             /\ (me.pc = "raised" /\ me.err = "read") => me.nwrites = 0
             /\ (me.pc = "raised" /\ me.err = "write") => me.nwrites = 1
       /\ me.op \in {"history", "format"} => me.nwrites = 0

\* one save_interaction has failed at its write, another caller's
\* get_conversation_history has failed at its read
C18_Witness ==
    \E p, q \in Procs :
       /\ procs[p].op = "save" /\ procs[p].pc = "raised"
       /\ procs[p].err = "write" /\ procs[p].nwrites = 1 /\ procs[p].nreads = 1
       /\ procs[q].op = "history" /\ procs[q].pc = "raised"
       /\ procs[q].nreads = 1

\* the storage mode a call on the manager side asked for: the argument, or
\* USE_S3 as it was then
AskedUseS3 ==
    IF got.use_s3_arg # "None" THEN got.use_s3_arg = "True"
    ELSE got.env.USE_S3 \in {"true", "True", "TRUE"}

\* the bucket name a call on the manager side asked for: the argument unless
\* it is None or empty, else S3_BUCKET_NAME as it was then
AskedBucket ==
    IF got.s3_bucket_arg \notin {"None", ""} THEN got.s3_bucket_arg
    ELSE IF got.env.S3_BUCKET_NAME = Unset THEN ""
    ELSE got.env.S3_BUCKET_NAME

\* C19: configuration errors come at construction only: a construction in
\* object-store mode without the client library raises ImportError, one
\* with an empty bucket name raises ValueError, and neither adds an instance
\* or replaces the one held; so every instance in object-store mode has a
\* client and a non-empty bucket name, every local instance has its
\* directory, and reaching for the backend of an existing instance raises
\* nothing but a storage fault.
C19_ConfigErrorsAtConstruction ==
    /\ \A i \in 1..Len(instances) :
          IF instances[i].use_s3
          THEN /\ instances[i].s3_bucket # ""
               /\ instances[i].s3_client = "s3"
               /\ boto3_available
          ELSE instances[i].storage_dir \notin {NoAttr, ""}
    /\ (got.call \in {"get", "new"} /\ AskedUseS3
          /\ (AskedBucket = "" \/ ~boto3_available))
          => /\ got.raised = (IF ~boto3_available THEN "ImportError"
                              ELSE "ValueError")
             /\ got.oid = 0
             /\ Len(instances) = got.made
             /\ conversation_manager = got.held
    /\ got.call = "access" => got.raised \in {"none", "Exception"}

\* a direct construction in object-store mode with an empty bucket name
\* has raised and nothing was constructed
C19_Witness ==
    /\ got.call = "new" /\ got.use_s3_arg = "True" /\ got.s3_bucket_arg = ""
    /\ got.env.S3_BUCKET_NAME = Unset
    /\ got.raised = "ValueError"
    /\ boto3_available
    /\ instances = <<>>

\* the configuration get_conversation_manager read at its last call
ConfigUseS3 == got.env.USE_S3 \in {"true", "True", "TRUE"}

ConfigBucket ==
    IF got.env.S3_BUCKET_NAME = Unset THEN "" ELSE got.env.S3_BUCKET_NAME

\* the instance held before the last call had that configuration
HeldMatched ==
    /\ got.held # 0
    /\ instances[got.held].use_s3 = ConfigUseS3
    /\ instances[got.held].s3_bucket = ConfigBucket

\* C20: get_conversation_manager holds one instance, constructed at the
\* first call: a call returns the instance held before it when that
\* instance has the storage mode and the bucket configured at the call,
\* and constructs nothing; otherwise it constructs an instance, holds and
\* returns it; the instance a successful call returns is the one held and
\* has the storage mode and the bucket configured at that call; a call
\* that raises, and a direct construction, leave the held instance as it
\* was.
C20_OneManagerPerConfiguration ==
    /\ conversation_manager \in 0..Len(instances)
    /\ nmgr = 0 => conversation_manager = 0
    /\ got.call \in {"new", "access"} => conversation_manager = got.held
    /\ got.call = "get" =>
          IF got.raised = "none"
          THEN /\ got.oid = conversation_manager
               /\ got.oid # 0
               /\ instances[got.oid].use_s3 = ConfigUseS3
               /\ instances[got.oid].s3_bucket = ConfigBucket
               /\ IF HeldMatched
                  THEN got.oid = got.held /\ Len(instances) = got.made
                  ELSE got.oid = got.made + 1 /\ Len(instances) = got.made + 1
          ELSE /\ ~HeldMatched
               /\ conversation_manager = got.held
               /\ Len(instances) = got.made

\* the configuration changed from local files to a bucket between two
\* calls and the second call constructed and returned a second instance
C20_Witness ==
    /\ got.call = "get" /\ got.raised = "none"
    /\ got.held = 1 /\ got.oid = 2 /\ conversation_manager = 2
    /\ ~instances[1].use_s3
    /\ instances[2].use_s3 /\ instances[2].s3_bucket = "b1"
    /\ got.env.USE_S3 = "TRUE"

\* the number of messages stored under conversation id c
StoredCount(c) ==
    IF storage[KeyOf(c)].state = "ok" THEN Len(JsonLoads(storage[KeyOf(c)].body).messages)
    ELSE 0

\* C21: the question/answer pair is never deduplicated: the write of a
\* successful save_interaction leaves at least two messages more under its
\* conversation id than were stored before, the last two being the user
\* message of its question and the assistant message of its answer,
\* whether or not such messages were stored already or came with the
\* imported history.
C21_PairNeverDeduplicated ==
    [][\A p \in Procs :
          (procs[p].op = "save" /\ procs[p].pc = "loaded"
              /\ procs'[p].pc = "done") =>
             LET c == procs[p].id
                 M == JsonLoads(storage'[KeyOf(c)].body).messages
             IN /\ storage'[KeyOf(c)].state = "ok"
                /\ Len(M) >= StoredCount(c) + 2
                /\ RoleContent(M[Len(M) - 1]) = Entry("user", procs[p].question)
                /\ RoleContent(M[Len(M)]) = Entry("assistant", procs[p].answer)
                /\ M[Len(M) - 1].call = procs[p].call
                /\ M[Len(M)].call = procs[p].call]_vars

\* the positions of the imported history H that repeat an earlier entry
Repeats(H) == {j \in 1..Len(H) : \E i \in 1..(j - 1) : H[i] = H[j]}

\* the positions in M, after the n loaded messages, of the messages with the
\* (role, content) pair e
AddedWith(M, n, e) == {k \in (n + 1)..Len(M) : RoleContent(M[k]) = e}

\* C22: the duplicate check of the merge sees what the same merge has
\* appended: for an imported history that holds a (role, content) pair more
\* than once, the pair not being among the loaded messages, the merge
\* appends one message for the pair, for its first occurrence, and none for
\* the later ones.
C22_RepeatedEntryAppendedOnce ==
    \A p \in UpdatedBy :
       LET me == procs[p]
           M  == me.data.messages
           n  == Len(me.snap.messages)
           H  == me.history
       IN \A j \in Repeats(H) :
             (\A k \in 1..n : RoleContent(M[k]) # H[j]) =>
                LET first == CHOOSE i \in 1..Len(H) :
                                /\ H[i] = H[j]
                                /\ \A l \in 1..(i - 1) : H[l] # H[j]
                    added == {k \in AddedWith(M, n, H[j]) : M[k].origin = "history"}
                IN /\ Cardinality(added) = 1
                   /\ AppendedFor(M, me.call, j) = {}
                   /\ AppendedFor(M, me.call, first) = added

\* a history that holds ("system", "hi") twice has been merged into a
\* transcript without it, and the stored transcript holds it once
C22_Witness ==
    \E p \in SavedBy :
       LET me == procs[p]
           D  == JsonLoads(storage[KeyOf(me.id)].body).messages
       IN /\ me.history = <<Entry("system", "hi"), Entry("system", "hi")>>
          /\ \A k \in 1..Len(me.snap.messages) :
                RoleContent(me.snap.messages[k]) # Entry("system", "hi")
          /\ me.snap.messages # <<>>
          /\ Cardinality(AddedWith(D, 0, Entry("system", "hi"))) = 1

\* caller p takes a step of a save_interaction on conversation id a
SaveStepOn(p, a) ==
    /\ procs'[p] # procs[p]
    /\ procs'[p].op = "save"
    /\ procs'[p].id = a

\* C23: conversations are isolated by key: distinct conversation ids name
\* distinct places in the backend, and a step of a save_interaction on
\* conversation id a, whether the call succeeds or fails and whatever the
\* other callers do, leaves what is stored for every other id b as it was.
C23_IsolatedByKey ==
    [][/\ \A a, b \in AllIds : a # b => KeyOf(a) # KeyOf(b)
       /\ \A p \in Procs, a, b \in AllIds :
             (SaveStepOn(p, a) /\ a # b)
                => storage'[KeyOf(b)] = storage[KeyOf(b)]]_vars

\* the messages a request has added to the transcript it loaded
AddedBy(p) == Len(procs[p].data.messages) - Len(procs[p].snap.messages)

\* the request of p has merged an entry of a history into the transcript
MergedHistory(p) ==
    \E i \in 1..Len(procs[p].data.messages) :
        /\ procs[p].data.messages[i].origin = "history"
        /\ procs[p].data.messages[i].call = procs[p].call

\* C24: in query_rag the stored history takes precedence over the history
\* of the request: a request whose save finds a non-empty transcript under
\* its conversation id passes that transcript on as the history and adds
\* exactly two messages, the history of the request being ignored; entries
\* of a history are merged into the transcript only when nothing is stored
\* for the id.
C24_StoredHistoryTakesPrecedence ==
    \A p \in Procs :
        (procs[p].op = "query" /\ procs[p].pc \in {"merged", "done"}
            /\ procs[p].nwrites <= 1 /\ procs[p].saved_id # "None")
        => /\ procs[p].snap.messages # <<>>
                => /\ procs[p].history = AsEntries(procs[p].snap.messages)
                   /\ AddedBy(p) = 2
           /\ MergedHistory(p) => procs[p].snap.messages = <<>>

\* the last two messages of the transcript stored for an id are the
\* question and the answer given
PairStoredUnder(conversation_id, question, answer) ==
    LET entry == storage[KeyOf(conversation_id)]
        M     == JsonLoads(entry.body).messages
    IN
    /\ entry.state = "ok"
    /\ Len(M) >= 2
    /\ M[Len(M) - 1].role = "user" /\ M[Len(M) - 1].content = question
    /\ M[Len(M)].role = "assistant" /\ M[Len(M)].content = answer

\* C25: a successful response of query_rag always carries a conversation
\* id: the id of the request when the request had one, a generated id
\* otherwise, on every path through RAGService.query, the early return for
\* a short question included; and the interaction, when it is saved, is
\* saved under the id that is returned.
C25_ResponseCarriesConversationId ==
    \A p \in Procs :
        (procs[p].op = "query" /\ procs[p].response.status = 200)
        => /\ Truthy(procs[p].response.conversation_id)
           /\ Truthy(procs[p].request.conversation_id)
                => procs[p].response.conversation_id
                      = procs[p].request.conversation_id
           /\ ~Truthy(procs[p].request.conversation_id)
                => procs[p].response.conversation_id \in QueryUuids
           /\ procs[p].saved_id # "None"
                => /\ procs[p].saved_id = procs[p].response.conversation_id
                   /\ PairStoredUnder(procs[p].response.conversation_id,
                                      procs[p].question,
                                      procs[p].response.answer)

\* a request without an id and with a short question has been answered
C25_Witness ==
    \E p \in Procs :
        /\ procs[p].op = "query" /\ procs[p].response.status = 200
        /\ procs[p].request.conversation_id = "None"
        /\ procs[p].response.answer = Rejection
        /\ procs[p].response.conversation_id \in QueryUuids

\* the length of a string between its first and its last character that
\* is not a blank
StrippedLength(s) ==
    LET NonBlank == {i \in 1..Len(s) : SubSeq(s, i, i) # " "} IN
    IF NonBlank = {} THEN 0
    ELSE (CHOOSE i \in NonBlank : \A j \in NonBlank : j <= i)
         - (CHOOSE i \in NonBlank : \A j \in NonBlank : i <= j) + 1

\* caller p takes the step of RAGService.query up to the answer
QueryStep(p) ==
    /\ procs[p].op = "query" /\ procs[p].pc = "routed"
    /\ procs'[p] # procs[p]

\* C26: RAGService.query, given a question of fewer than 10 characters
\* once stripped, returns the fixed rejection answer with no sources and
\* neither reads nor writes the conversation store, whose transcript is
\* unchanged; on every other path that returns normally save_interaction
\* is called exactly once, and only once the answer has been produced.
C26_ShortQuestionTouchesNothing ==
    [][\A p \in Procs :
          /\ (QueryStep(p) /\ StrippedLength(procs[p].question) < 10)
                => /\ procs'[p].pc = "done"
                   /\ procs'[p].response.status = 200
                   /\ procs'[p].response.answer = Rejection
                   /\ procs'[p].response.sources = <<>>
                   /\ procs'[p].nreads = procs[p].nreads
                   /\ procs'[p].nwrites = 0
                   /\ procs'[p].saved_id = "None"
                   /\ storage' = storage
          /\ (QueryStep(p) /\ StrippedLength(procs[p].question) >= 10)
                => /\ procs'[p].pc \in {"answered", "raised"}
                   /\ procs'[p].nwrites = 0
                   /\ procs'[p].saved_id = "None"
                   /\ storage' = storage
          /\ (procs[p].op = "query" /\ procs[p].saved_id = "None"
                /\ procs'[p].saved_id # "None")
                => /\ procs[p].pc = "answered"
                   /\ procs[p].answer \in Answers
                   /\ procs'[p].answer = procs[p].answer
          /\ (procs[p].op = "query" /\ procs'[p].op = "query"
                /\ procs[p].response.status # 200
                /\ procs'[p].response.status = 200
                /\ StrippedLength(procs[p].question) >= 10)
                => /\ procs[p].pc = "merged"
                   /\ procs'[p].nwrites = 1
                   /\ procs'[p].saved_id # "None"
                   /\ procs'[p].response.answer = procs[p].answer]_vars

\* a short question on a conversation that has a transcript is rejected
C26_Witness ==
    \E p \in Procs :
        /\ procs[p].op = "query" /\ procs[p].pc = "done"
        /\ StrippedLength(procs[p].question) < 10
        /\ procs[p].response.answer = Rejection
        /\ procs[p].nreads = 1 /\ procs[p].nwrites = 0
        /\ storage[KeyOf(procs[p].id)].state = "ok"

\* C27: in local-storage mode the manager that get_conversation_manager
\* returns for storage_dir = d keeps its transcripts under d, or under the
\* default directory when d is omitted, whatever calls came before and
\* whatever directories they named.
C27_ManagerStoresUnderRequestedDir ==
    (got.call = "get" /\ got.raised = "none" /\ got.oid # 0
        /\ ~instances[got.oid].use_s3)
    => instances[got.oid].storage_dir = got.storage_dir

====
